---- MODULE Spec2Model ----
(***************************************************************************)
(* axios-trials: the retry interceptors installed on an axios instance by  *)
(* axiosTrials(axios, opts) (src/index.ts).  A logical request is issued   *)
(* by the caller, passes the request interceptor, is answered by the       *)
(* transport, and on failure passes the response (error) interceptor,      *)
(* which either rejects the caller's promise or schedules a re-dispatch.   *)
(***************************************************************************)
EXTENDS Integers, Sequences, FiniteSets, TLC

VARIABLES opts, plan, now, req, probe

vars == <<opts, plan, now, req, probe>>

----------------------------------------------------------------------------
(* Bounds of the model *)

\* largest `retries` option tried
MaxRetries == 2
\* longest time (ms) the server takes to answer one dispatch
MaxDur == 2
\* largest positive request timeout (ms) tried
MaxTimeout == 3

(* Program constants *)

\* `retries = 3` default of the destructuring in the response interceptor
DefaultRetries == 3

----------------------------------------------------------------------------
(* JavaScript values: undefined, null, NaN and numbers *)

Undef == [k |-> "undefined", v |-> 0]
Null == [k |-> "null", v |-> 0]
NaNv == [k |-> "NaN", v |-> 0]
Num(n) == [k |-> "number", v |-> n]

Max(a, b) == IF a >= b THEN a ELSE b

\* x === undefined: the test of a destructuring default, and a key that an
\* object does not carry
isUndefined(x) == x.k = "undefined"

\* ramda isNil: undefined or null
isNil(x) == x.k \in {"undefined", "null"}

\* a ?? b
Coalesce(a, b) == IF isNil(a) THEN b ELSE a

----------------------------------------------------------------------------
(* The 'axios-trials' namespace field of a request config *)

\* config without the namespace field.  obj names the object that the field
\* holds: 0 when the config carries none (getCurrentState then makes one of
\* its own for this config), else the object the caller put there
NoNamespace ==
  [present |-> FALSE, obj |-> 0, retries |-> Undef, retryCondition |-> "undefined", retryDelay |-> "undefined",
   delayFn |-> "undefined", shouldResetTimeout |-> "undefined",
   retryCount |-> Undef, lastRequestTime |-> Undef]

\* a config object that is {} (an error whose config is empty)
EmptyConfig ==
  [method |-> "", timeout |-> Undef, agent |-> "undefined", transformRequest |-> "default",
   data |-> 0, ns |-> NoNamespace]

\* isNil alone: an empty config passes
isEitherNilOrEmpty_nilOnly(c) == c = "nil"

\* isEitherNilOrEmpty applied to error.config; the config of an error is
\* "nil" (undefined), "empty" ({}) or "present" (the config of the request)
isEitherNilOrEmpty(c) == c = "nil" \/ c = "empty"

\* getCurrentState: the config after the call (its namespace field exists and
\* retryCount is a number).  `config[namespace] ?? {}` keeps and writes the
\* object it finds on the config (obj stays), and makes a new one only when
\* there is none
getCurrentState(config) ==
  [config EXCEPT !.ns = [@ EXCEPT !.present = TRUE, !.retryCount = Coalesce(@, Num(0))]]

\* Object.assign({}, config[namespace], defaultOptions): the options win
getRequestOptions_optionsWin(config, defaultOptions) ==
  IF ~config.ns.present
  THEN defaultOptions
  ELSE [retries |-> IF isUndefined(defaultOptions.retries) THEN config.ns.retries ELSE defaultOptions.retries,
        retryCondition |-> IF defaultOptions.retryCondition = "undefined"
                           THEN config.ns.retryCondition ELSE defaultOptions.retryCondition,
        retryDelay |-> IF defaultOptions.retryDelay = "undefined"
                       THEN config.ns.retryDelay ELSE defaultOptions.retryDelay,
        delayFn |-> IF defaultOptions.delayFn = "undefined"
                    THEN config.ns.delayFn ELSE defaultOptions.delayFn,
        shouldResetTimeout |-> IF defaultOptions.shouldResetTimeout = "undefined"
                               THEN config.ns.shouldResetTimeout
                               ELSE defaultOptions.shouldResetTimeout]

\* getRequestOptions: Object.assign({}, defaultOptions, config[namespace]);
\* a key of the namespace field overrides the same key of the options
getRequestOptions(config, defaultOptions) ==
  IF ~config.ns.present
  THEN defaultOptions
  ELSE [retries |-> IF isUndefined(config.ns.retries) THEN defaultOptions.retries ELSE config.ns.retries,
        retryCondition |-> IF config.ns.retryCondition = "undefined"
                           THEN defaultOptions.retryCondition ELSE config.ns.retryCondition,
        retryDelay |-> IF config.ns.retryDelay = "undefined"
                       THEN defaultOptions.retryDelay ELSE config.ns.retryDelay,
        delayFn |-> IF config.ns.delayFn = "undefined"
                    THEN defaultOptions.delayFn ELSE config.ns.delayFn,
        shouldResetTimeout |-> IF config.ns.shouldResetTimeout = "undefined"
                               THEN defaultOptions.shouldResetTimeout
                               ELSE config.ns.shouldResetTimeout]

----------------------------------------------------------------------------
(* Failure classifier *)

SAFE_HTTP_METHODS == {"get", "head", "options"}
IDEMPOTENT_HTTP_METHODS == SAFE_HTTP_METHODS \cup {"put", "delete"}

\* ./_internal/isRetryAllowed: the generic safety check; its verdict is
\* carried by the error
isRetryAllowed(error) == error.allowed

\* the upper end of the 5xx range is left out
isRetryableError_below599(error) ==
  /\ error.code # "ECONNABORTED"
  /\ (~error.hasResponse \/ (error.status >= 500 /\ error.status < 599))

isRetryableError(error) ==
  /\ error.code # "ECONNABORTED"
  /\ (~error.hasResponse \/ (error.status >= 500 /\ error.status <= 599))

isNetworkError(error) ==
  /\ ~error.hasResponse
  /\ error.code # ""
  /\ error.code # "ECONNABORTED"
  /\ isRetryAllowed(error)

\* config is error.config when it is present
isIdempotentRequestError(error, config) ==
  IF isEitherNilOrEmpty(error.config)
  THEN FALSE
  ELSE isRetryableError(error) /\ config.method \in IDEMPOTENT_HTTP_METHODS

isNetworkOrIdempotentRequestError(error, config) ==
  isNetworkError(error) \/ isIdempotentRequestError(error, config)

----------------------------------------------------------------------------
(* Delay strategy *)

noDelay(retryNumber) == 0

\* a caller-supplied delay function: retryNumber ms
linearDelay(retryNumber) == retryNumber

\* a caller-supplied delay function that counts its calls and returns 0
countingDelay(retryNumber) == 0

----------------------------------------------------------------------------
(* Config repair (axios issue 370) *)

\* the default agents of the axios instance
AxiosDefaults == [agent |-> "undefined", httpAgent |-> "httpAgent", httpsAgent |-> "httpsAgent"]

\* pathOr('') on the instance defaults
safetyPath(name) == IF AxiosDefaults[name] = "undefined" THEN "" ELSE AxiosDefaults[name]

\* when(pathEq(['agent'], x), omit(['agent'])); "absent" is a config without the key
omitAgentWhen(x, config) == IF config.agent = x THEN [config EXCEPT !.agent = "absent"] ELSE config

fixConfig(config) ==
  omitAgentWhen(safetyPath("httpsAgent"),
    omitAgentWhen(safetyPath("httpAgent"),
      omitAgentWhen(safetyPath("agent"), config)))

\* ramda mergeAll([a, b]): the keys of b override those of a
mergeAll(a, b) == [b EXCEPT !.agent = IF @ = "absent" THEN a.agent ELSE @]

----------------------------------------------------------------------------
(* Timeout of the re-dispatched config *)

\* without complement(equals(0)): 0 counts as a number that exists
numberExists_zeroExists(x) == ~isNil(x) /\ x.k # "NaN"

\* allPass([complement(isNil), complement(isNaN), complement(equals(0))]);
\* isNaN is the global one: isNaN(null) is false
numberExists(x) == ~isNil(x) /\ x.k # "NaN" /\ x # Num(0)

\* without Math.max(..., 1)
retryTimeout_noFloor(timeout, lastRequestTime, dateNow, delay, shouldResetTimeout) ==
  IF ~shouldResetTimeout /\ numberExists(timeout) /\ numberExists(lastRequestTime)
  THEN LET lastRequestDuration == dateNow - lastRequestTime.v
       IN  Coalesce(timeout, Num(1 - lastRequestDuration - delay))
  ELSE timeout

\* without the `!shouldResetTimeout &&` test
retryTimeout_alwaysAdjust(timeout, lastRequestTime, dateNow, delay, shouldResetTimeout) ==
  IF numberExists(timeout) /\ numberExists(lastRequestTime)
  THEN LET lastRequestDuration == dateNow - lastRequestTime.v
       IN  Num(Max(Coalesce(timeout, Num(1 - lastRequestDuration - delay)).v, 1))
  ELSE timeout

\* fixedConfig.timeout after the `if` of the retry branch.  The argument of
\* Math.max is `timeout ?? (1 - lastRequestDuration - delay)`: binary minus
\* binds tighter than ??
retryTimeout(timeout, lastRequestTime, dateNow, delay, shouldResetTimeout) ==
  IF ~shouldResetTimeout /\ numberExists(timeout) /\ numberExists(lastRequestTime)
  THEN LET lastRequestDuration == dateNow - lastRequestTime.v
       IN  Num(Max(Coalesce(timeout, Num(1 - lastRequestDuration - delay)).v, 1))
  ELSE timeout

----------------------------------------------------------------------------
(* The response interceptor's rejected handler, piece by piece *)

\* `retries || 3`: a retries option of 0 falls back to the default
retriesOf_falsy(o) == IF isUndefined(o.retries) \/ o.retries.v = 0 THEN DefaultRetries ELSE o.retries.v

\* `retries = 3` of the destructuring
retriesOf(o) == IF isUndefined(o.retries) THEN DefaultRetries ELSE o.retries.v

\* `retryCondition = isNetworkOrIdempotentRequestError` of the destructuring,
\* applied to the error; "always" and "never" are the caller's () => true
\* and () => false
retryConditionOf(o, error, config) ==
  CASE o.retryCondition = "always" -> TRUE
    [] o.retryCondition = "never" -> FALSE
    [] OTHER -> isNetworkOrIdempotentRequestError(error, config)

\* `retryDelay = noDelay` of the destructuring, applied to the retry number
retryDelayOf(o, retryNumber) ==
  CASE o.retryDelay = "linear" -> linearDelay(retryNumber)
    [] o.retryDelay = "counting" -> countingDelay(retryNumber)
    [] OTHER -> noDelay(retryNumber)

\* the function that `retryDelay` names after the destructuring
delayFunctionOf(o) == IF o.retryDelay = "undefined" THEN "noDelay" ELSE o.retryDelay

\* the delay function is called before the increment
delayArgumentOf_beforeIncrement(retryCount) == retryCount

\* currentState.retryCount += 1; retryDelay(currentState.retryCount, error):
\* the first argument of the call, from retryCount before the increment
delayArgumentOf(retryCount) == retryCount + 1

\* `shouldResetTimeout = false` of the destructuring
shouldResetTimeoutOf(o) == o.shouldResetTimeout = "true"

\* off by one: retries while retryCount equals retries
shouldRetry_offByOne(condition, retryCount, retries) == condition /\ retryCount <= retries

\* the retry condition is not consulted
shouldRetry_countOnly(condition, retryCount, retries) == retryCount < retries

\* const shouldRetry = retryCondition(error) && currentState.retryCount < retries
shouldRetry(condition, retryCount, retries) == condition /\ retryCount < retries

\* the config the handler works on: error.config
configOf(r, error) == IF error.config = "present" THEN req[r].config ELSE EmptyConfig

\* without `fixedConfig.transformRequest = [data => data]`
fixedConfigOf_keepTransform(config, o, delay, dateNow) ==
  LET st == getCurrentState(config)
      counted == [st EXCEPT !.ns.retryCount = Num(@.v + 1)]
      merged == mergeAll(counted, fixConfig(counted))
  IN  [merged EXCEPT
         !.timeout = retryTimeout(@, counted.ns.lastRequestTime, dateNow, delay, shouldResetTimeoutOf(o))]

\* the config handed to axios(fixedConfig) by the retry branch
fixedConfigOf(config, o, delay, dateNow) ==
  LET st == getCurrentState(config)
      counted == [st EXCEPT !.ns.retryCount = Num(@.v + 1)]
      merged == mergeAll(counted, fixConfig(counted))
  IN  [merged EXCEPT
         !.timeout = retryTimeout(@, counted.ns.lastRequestTime, dateNow, delay, shouldResetTimeoutOf(o)),
         !.transformRequest = "identity"]

----------------------------------------------------------------------------
(* Promises *)

NoError == [id |-> 0, code |-> "", hasResponse |-> FALSE, status |-> 0, config |-> "nil", allowed |-> TRUE]
Pending == [kind |-> "pending", id |-> 0, error |-> NoError]
Resolved(n) == [kind |-> "resolved", id |-> n, error |-> NoError]
\* the handler rejects with a new error that wraps the transport's
Rejected_wrapped(error) ==
  [kind |-> "rejected", id |-> error.id, error |-> [error EXCEPT !.code = "ERR_RETRIES_EXHAUSTED"]]

Rejected(error) == [kind |-> "rejected", id |-> error.id, error |-> error]

\* a promise settles once
settle(promise, outcome) == IF promise.kind = "pending" THEN outcome ELSE promise

\* the retry branch rejects the caller and re-dispatches on the side
afterRetryScheduled_reject(promise, error) == settle(promise, Rejected(error))

\* the caller's promise after the retry branch returned
\* new Promise(resolve => setTimeout(() => resolve(axios(fixedConfig)), delay)):
\* it follows the re-dispatch
afterRetryScheduled(promise, error) == promise

NoRetry == [valid |-> FALSE, timeout |-> Undef, duration |-> 0, delay |-> 0]

\* no error classified yet
NoProbe == [done |-> FALSE, error |-> NoError, method |-> "", verdict |-> FALSE]

----------------------------------------------------------------------------
(* Inputs *)

Durations == 0..MaxDur

Timeouts == {Undef, Null, NaNv, Num(0), Num(-1)} \cup {Num(t) : t \in 1..MaxTimeout}

RetriesOptions == {Undef} \cup {Num(n) : n \in 0..MaxRetries}

Options ==
  [retries : RetriesOptions,
   retryCondition : {"undefined", "always", "never"},
   retryDelay : {"undefined", "linear"},
   delayFn : {"undefined"},
   shouldResetTimeout : {"undefined", "true", "false"}]

\* the configs the caller passes to client.get / client.post
RequestConfigs ==
  [method : {"get", "post"}, timeout : Timeouts, agent : {"undefined"},
   transformRequest : {"default"}, data : {0}, ns : {NoNamespace}]

\* what the transport (or an interceptor registered before axiosTrials)
\* reports: a connection reset, a 503, a 404, a cancellation, and errors
\* without a usable config
ErrorKinds ==
  { [code |-> "ECONNRESET", hasResponse |-> FALSE, status |-> 0, config |-> "present", allowed |-> TRUE],
    [code |-> "ERR_BAD_RESPONSE", hasResponse |-> TRUE, status |-> 503, config |-> "present", allowed |-> TRUE],
    [code |-> "ERR_BAD_REQUEST", hasResponse |-> TRUE, status |-> 404, config |-> "present", allowed |-> TRUE],
    [code |-> "", hasResponse |-> FALSE, status |-> 0, config |-> "present", allowed |-> TRUE],
    [code |-> "", hasResponse |-> FALSE, status |-> 0, config |-> "nil", allowed |-> TRUE],
    [code |-> "", hasResponse |-> FALSE, status |-> 0, config |-> "empty", allowed |-> TRUE] }

\* the error of dispatch number n
ErrorOf(kind, n) ==
  [id |-> n, code |-> kind.code, hasResponse |-> kind.hasResponse, status |-> kind.status,
   config |-> kind.config, allowed |-> kind.allowed]

\* axios aborts a dispatch with ECONNABORTED when the answer takes the timeout or longer
TimeoutError(n) ==
  [id |-> n, code |-> "ECONNABORTED", hasResponse |-> FALSE, status |-> 0, config |-> "present", allowed |-> TRUE]

\* a timeout of 0 or less (or none) means no timeout to the transport
hasTimeout(config) == config.timeout.k = "number" /\ config.timeout.v > 0

timesOut(config, d) == hasTimeout(config) /\ d >= config.timeout.v

----------------------------------------------------------------------------
(* Interceptors *)

\* the transport runs config.transformRequest on config.data at every
\* dispatch and keeps the result on the config; data counts the
\* serializations the body went through
dispatchRequest(config) ==
  [config EXCEPT !.data = IF config.transformRequest = "identity" THEN @ ELSE @ + 1]

\* axios.interceptors.request.use: runs on every dispatch
requestInterceptor(config, dateNow) ==
  [getCurrentState(config) EXCEPT !.ns.lastRequestTime = Num(dateNow)]

\* the time of the original request that the attempt in flight has used up
consumed(q) == q.config.ns.lastRequestTime.v - q.startedAt

\* the attempt in flight needs longer than what remains of the original timeout
overruns(r, q, d) ==
  /\ hasTimeout(plan[r])
  /\ consumed(q) > 0
  /\ consumed(q) < plan[r].timeout.v
  /\ d > plan[r].timeout.v - consumed(q)

\* axios.interceptors.response.use(undefined, async error => ...): the state
\* of request r after its dispatch failed with `error` at time dateNow
onRejected(r, error, dateNow) ==
  LET q == [req[r] EXCEPT !.failures = @ + 1, !.error = error]
      config == configOf(r, error)
  IN
  IF isEitherNilOrEmpty(error.config)
  THEN [q EXCEPT !.pc = "failed", !.result = settle(@, Rejected(error))]
  ELSE
    LET o == getRequestOptions(config, opts)
        currentState == getCurrentState(config)
        condition == retryConditionOf(o, error, config)
        q1 == [q EXCEPT !.condCalls = @ + 1]
    IN
    IF shouldRetry(condition, currentState.ns.retryCount.v, retriesOf(o))
    THEN LET retryNumber == delayArgumentOf(currentState.ns.retryCount.v)
             delay == retryDelayOf(o, retryNumber)
         IN  [q1 EXCEPT
                !.pc = "waiting",
                !.config = fixedConfigOf(config, o, delay, dateNow),
                !.delayArgs = Append(@, retryNumber),
                !.delayErrors = Append(@, error.id),
                !.delayFns = Append(@, delayFunctionOf(o)),
                !.fireAt = dateNow + delay,
                !.lastRetry = [valid |-> TRUE, timeout |-> config.timeout,
                               duration |-> dateNow - currentState.ns.lastRequestTime.v,
                               delay |-> delay],
                !.result = afterRetryScheduled(@, error)]
    ELSE [q1 EXCEPT !.pc = "failed", !.config = currentState,
                    !.result = settle(@, Rejected(error))]

----------------------------------------------------------------------------
(* Actions *)

\* the configs a and b carry the same 'axios-trials' object: getCurrentState
\* reads and writes the object it finds on the config it is given
\* (`config[namespace] ?? {}`), so what it writes through a shows through b
sharesState(a, b) == a.ns.obj # 0 /\ a.ns.obj = b.ns.obj

\* the config of request r as the request interceptor gets it at the first
\* dispatch: the caller's config, whose 'axios-trials' object holds what the
\* interceptors wrote to it so far
callerConfig(r) ==
  IF \E s \in DOMAIN req : sharesState(plan[r], req[s].config)
  THEN [plan[r] EXCEPT !.ns = req[CHOOSE s \in DOMAIN req : sharesState(plan[r], req[s].config)].config.ns]
  ELSE plan[r]

\* req after the interceptors ran for request r and left it as q: the
\* writes to the state object of r show in every config that carries it
writeBack(r, q) ==
  [s \in DOMAIN req \cup {r} |->
     IF s = r THEN q
     ELSE IF sharesState(q.config, req[s].config)
          THEN [req[s] EXCEPT !.config.ns.retryCount = q.config.ns.retryCount,
                              !.config.ns.lastRequestTime = q.config.ns.lastRequestTime]
          ELSE req[s]]

Init ==
  /\ opts \in Options
  /\ plan \in [{1} -> RequestConfigs]
  /\ now = 1
  /\ req = <<>>
  /\ probe = NoProbe

\* the caller issues request r: the request interceptor runs and the
\* transport gets dispatch number 1
Request(r) ==
  /\ r \in DOMAIN plan
  /\ r \notin DOMAIN req
  /\ req' = writeBack(r, [pc |-> "inflight",
                          config |-> dispatchRequest(requestInterceptor(callerConfig(r), now)),
                          startedAt |-> now,
                          dispatches |-> 1,
                          failures |-> 0,
                          condCalls |-> 0,
                          delayArgs |-> <<>>,
                          delayErrors |-> <<>>,
                          delayFns |-> <<>>,
                          fireAt |-> 0,
                          error |-> NoError,
                          lastRetry |-> NoRetry,
                          overran |-> FALSE,
                          result |-> Pending])
  /\ UNCHANGED <<opts, plan, now, probe>>

\* the transport answers the dispatch in flight with a 2xx response after d ms
Succeed(r, d) ==
  /\ r \in DOMAIN req
  /\ req[r].pc = "inflight"
  /\ ~timesOut(req[r].config, d)
  /\ now' = now + d
  /\ req' = [req EXCEPT ![r] = [@ EXCEPT !.pc = "succeeded",
                                         !.overran = @ \/ overruns(r, req[r], d),
                                         !.result = settle(@, Resolved(req[r].dispatches))]]
  /\ UNCHANGED <<opts, plan, probe>>

\* the dispatch in flight fails after d ms and the response interceptor runs
Fail(r, d, kind) ==
  /\ r \in DOMAIN req
  /\ req[r].pc = "inflight"
  /\ ~timesOut(req[r].config, d)
  /\ now' = now + d
  /\ req' = writeBack(r, [onRejected(r, ErrorOf(kind, req[r].dispatches), now')
                            EXCEPT !.overran = @ \/ overruns(r, req[r], d)])
  /\ UNCHANGED <<opts, plan, probe>>

\* the answer would take d ms, the timeout of the config comes first: the
\* transport aborts the dispatch and the response interceptor runs
TimeoutAbort(r, d) ==
  /\ r \in DOMAIN req
  /\ req[r].pc = "inflight"
  /\ timesOut(req[r].config, d)
  /\ now' = now + req[r].config.timeout.v
  /\ req' = writeBack(r, [onRejected(r, TimeoutError(req[r].dispatches), now')
                            EXCEPT !.overran = @ \/ overruns(r, req[r], d)])
  /\ UNCHANGED <<opts, plan, probe>>

\* the timer of the retry branch fires: axios(fixedConfig) runs the request
\* interceptor and the transport gets the next dispatch
RetryTimer(r) ==
  /\ r \in DOMAIN req
  /\ req[r].pc = "waiting"
  /\ now' = Max(now, req[r].fireAt)
  /\ req' = writeBack(r, [req[r] EXCEPT !.pc = "inflight",
                                        !.config = dispatchRequest(requestInterceptor(@, now')),
                                        !.dispatches = @ + 1])
  /\ UNCHANGED <<opts, plan, probe>>

Next ==
  \/ \E r \in DOMAIN plan : Request(r)
  \/ \E r \in DOMAIN plan, d \in Durations : Succeed(r, d)
  \/ \E r \in DOMAIN plan, d \in Durations, kind \in ErrorKinds : Fail(r, d, kind)
  \/ \E r \in DOMAIN plan, d \in Durations : TimeoutAbort(r, d)
  \/ \E r \in DOMAIN plan : RetryTimer(r)

Spec == Init /\ [][Next]_vars

\* The default retry condition on its own: errors and methods to classify
Methods == {"get", "head", "options", "put", "delete", "post", "patch", ""}

ProbeErrors ==
  [id : {1},
   code : {"", "ECONNRESET", "ECONNABORTED"},
   hasResponse : {FALSE}, status : {0},
   config : {"nil", "empty", "present"},
   allowed : BOOLEAN]
  \cup
  [id : {1},
   code : {"", "ECONNRESET", "ECONNABORTED"},
   hasResponse : {TRUE}, status : {200, 404, 499, 500, 503, 599, 600},
   config : {"nil", "empty", "present"},
   allowed : BOOLEAN]

\* isNetworkOrIdempotentRequestError(error) for an error whose config, when
\* present, has the given method ("" is a config without method)
Classify(error, method) ==
  /\ ~probe.done
  /\ probe' = [done |-> TRUE, error |-> error, method |-> method,
               verdict |-> isNetworkOrIdempotentRequestError(error, [EmptyConfig EXCEPT !.method = method])]
  /\ UNCHANGED <<opts, plan, now, req>>

InitClassifier ==
  /\ opts \in [retries : {Undef}, retryCondition : {"undefined"}, retryDelay : {"undefined"},
                delayFn : {"undefined"}, shouldResetTimeout : {"undefined"}]
  /\ plan = <<>>
  /\ now = 1
  /\ req = <<>>
  /\ probe = NoProbe

NextClassifier == \E error \in ProbeErrors, method \in Methods : Classify(error, method)

SpecClassifier == InitClassifier /\ [][NextClassifier]_vars

\* the transport answers the dispatch of request r that is in flight
Answer(r) ==
  \/ \E d \in Durations : Succeed(r, d)
  \/ \E d \in Durations, kind \in ErrorKinds : Fail(r, d, kind)
  \/ \E d \in Durations : TimeoutAbort(r, d)

\* every dispatch is answered and every timer set by setTimeout fires
Fairness == \A r \in {1} : WF_vars(Answer(r)) /\ WF_vars(RetryTimer(r))

SpecFair == Init /\ [][Next]_vars /\ Fairness

\* Per-request overrides, the README's `delayFn` key and agents: the options
\* and the request configs of this specification
OverrideOptions ==
  [retries : {Undef, Num(1), Num(4)},
   retryCondition : {"undefined", "always"},
   retryDelay : {"undefined", "counting"},
   delayFn : {"undefined", "counting"},
   shouldResetTimeout : {"undefined"}]

\* config['axios-trials'] as the caller may pass it: absent, or an object
\* with a retries key
Overrides ==
  {NoNamespace} \cup {[NoNamespace EXCEPT !.present = TRUE, !.obj = 1, !.retries = Num(n)] : n \in {0, 2}}

OverrideConfigs ==
  [method : {"get"}, timeout : {Undef, Num(1)},
   agent : {"undefined", "httpAgent", "httpsAgent", "custom"},
   transformRequest : {"default"}, data : {0}, ns : Overrides]

InitOverrides ==
  /\ opts \in OverrideOptions
  /\ plan \in [{1} -> OverrideConfigs]
  /\ now = 1
  /\ req = <<>>
  /\ probe = NoProbe

SpecOverrides == InitOverrides /\ [][Next]_vars

\* Two requests through the same instance
TwoOptions ==
  [retries : {Num(1)}, retryCondition : {"undefined", "always"}, retryDelay : {"undefined"},
   delayFn : {"undefined"}, shouldResetTimeout : {"undefined"}]

\* config['axios-trials'] of the two requests: absent, or one of two
\* objects of the caller
TwoNamespaces == Overrides \cup {[ns EXCEPT !.obj = 2] : ns \in {o \in Overrides : o.present}}

TwoConfigs ==
  [method : {"get"}, timeout : {Undef}, agent : {"undefined"},
   transformRequest : {"default"}, data : {0}, ns : TwoNamespaces]

\* the caller may hand one 'axios-trials' object to both requests (one
\* object has one content), or an object to each
InitTwo ==
  /\ opts \in TwoOptions
  /\ plan \in {p \in [{1, 2} -> TwoConfigs] : p[1].ns.obj = p[2].ns.obj => p[1].ns = p[2].ns}
  /\ now = 1
  /\ req = <<>>
  /\ probe = NoProbe

\* the failures reported to the two requests: a connection reset, a 404,
\* an error without config
TwoErrorKinds == {kind \in ErrorKinds : kind.code = "ECONNRESET" \/ kind.status = 404 \/ kind.config = "nil"}

NextTwo ==
  \/ \E r \in DOMAIN plan : Request(r)
  \/ \E r \in DOMAIN plan : Succeed(r, 0)
  \/ \E r \in DOMAIN plan, d \in {0, 1}, kind \in TwoErrorKinds : Fail(r, d, kind)
  \/ \E r \in DOMAIN plan : RetryTimer(r)

SpecTwo == InitTwo /\ [][NextTwo]_vars

----------------------------------------------------------------------------
(* Properties *)

\* the effective options of request r and its retry count
effective(r) == getRequestOptions(req[r].config, opts)
retryCountOf(q) == q.config.ns.retryCount.v

\* the response interceptor handled a failure of request r in this step
FailureStep(r) == r \in DOMAIN req /\ req'[r].failures = req[r].failures + 1

\* C1 as stated: with a retry condition that is always true and retries = N,
\* a request all of whose dispatches failed was dispatched exactly N + 1
\* times (N re-dispatches) and the caller got the failure of dispatch N + 1
C1_AnyFailure ==
  \A r \in DOMAIN req :
    (effective(r).retryCondition = "always" /\ req[r].pc = "failed")
      => /\ req[r].dispatches = retriesOf(effective(r)) + 1
         /\ req[r].result = Rejected(req[r].error)
         /\ req[r].error.id = retriesOf(effective(r)) + 1

\* C1 (amended): with a retry condition that is always true and retries = N,
\* there is never a dispatch number N + 2, and a request all of whose
\* dispatches failed with errors carrying the request config (a failure
\* without config ends the chain at once) was dispatched exactly N + 1 times
\* and the caller got the failure of dispatch N + 1
C1_ExactlyNRedispatches ==
  \A r \in DOMAIN req :
    effective(r).retryCondition = "always"
      => /\ req[r].dispatches <= retriesOf(effective(r)) + 1
         /\ (req[r].pc = "failed" /\ req[r].error.config = "present")
              => /\ req[r].dispatches = retriesOf(effective(r)) + 1
                 /\ req[r].failures = retriesOf(effective(r)) + 1
                 /\ Len(req[r].delayArgs) = retriesOf(effective(r))
                 /\ req[r].result = Rejected(req[r].error)
                 /\ req[r].error.id = retriesOf(effective(r)) + 1

C1_Witness ==
  \E r \in DOMAIN req :
    /\ effective(r).retryCondition = "always"
    /\ retriesOf(effective(r)) >= 2
    /\ req[r].pc = "failed"
    /\ req[r].error.config = "present"
    /\ req[r].dispatches = retriesOf(effective(r)) + 1

\* C2: retryCount never exceeds the effective retries, and a failure that
\* arrives while retryCount equals retries is terminal: the caller is
\* rejected with it and nothing is scheduled or dispatched
C2_CountBounded ==
  /\ [](\A r \in DOMAIN req : retryCountOf(req[r]) <= retriesOf(effective(r)))
  /\ [][\A r \in DOMAIN plan :
          (FailureStep(r) /\ retryCountOf(req[r]) = retriesOf(effective(r)))
            => /\ req'[r].pc = "failed"
               /\ req'[r].result = Rejected(req'[r].error)
               /\ req'[r].error.id = req[r].dispatches
               /\ req'[r].dispatches = req[r].dispatches
               /\ retryCountOf(req'[r]) = retryCountOf(req[r])]_vars

C2_Witness ==
  \E r \in DOMAIN req :
    /\ effective(r).retryCondition = "always"
    /\ retriesOf(effective(r)) >= 1
    /\ retryCountOf(req[r]) = retriesOf(effective(r))
    /\ req[r].pc = "failed"
    /\ req[r].error.config = "present"

\* C3: with retries = 0 the first failure is rejected to the caller, whatever
\* the retry condition, and the request is never dispatched again
C3_ZeroRetries ==
  \A r \in DOMAIN req :
    effective(r).retries = Num(0)
      => /\ req[r].dispatches = 1
         /\ req[r].delayArgs = <<>>
         /\ req[r].failures >= 1
              => /\ req[r].pc = "failed"
                 /\ req[r].failures = 1
                 /\ req[r].error.id = 1
                 /\ req[r].result = Rejected(req[r].error)

C3_Witness ==
  \E r \in DOMAIN req :
    /\ effective(r).retries = Num(0)
    /\ effective(r).retryCondition = "always"
    /\ req[r].error.config = "present"
    /\ req[r].pc = "failed"

\* C4: when the retry condition returns false for a failure that arrives
\* with retries >= 1 and retryCount < retries, the caller is rejected with
\* that very error, nothing is dispatched or scheduled and retryCount keeps
\* its value
C4_ConditionFalseIsTerminal ==
  [][\A r \in DOMAIN plan :
       (/\ FailureStep(r)
        /\ req'[r].error.config = "present"
        /\ ~retryConditionOf(effective(r), req'[r].error, req[r].config)
        /\ retriesOf(effective(r)) >= 1
        /\ retryCountOf(req[r]) < retriesOf(effective(r)))
         => /\ req'[r].pc = "failed"
            /\ req'[r].error.id = req[r].dispatches
            /\ req'[r].result = Rejected(req'[r].error)
            /\ req'[r].dispatches = req[r].dispatches
            /\ req'[r].delayArgs = req[r].delayArgs
            /\ retryCountOf(req'[r]) = retryCountOf(req[r])]_vars

C4_Witness ==
  \E r \in DOMAIN req :
    /\ effective(r).retryCondition = "never"
    /\ retriesOf(effective(r)) >= 1
    /\ req[r].pc = "failed"
    /\ req[r].error.code = "ECONNRESET"
    /\ req[r].result = Rejected(req[r].error)
    /\ retryCountOf(req[r]) = 0

\* C5: a failure whose error carries no request config (nil or empty) is
\* rejected to the caller at once with that error, for any retries and any
\* retry condition: the retry state on the request config is left as it was,
\* the retry condition is not consulted and nothing is dispatched
C5_NoConfigIsTerminal ==
  [][\A r \in DOMAIN plan :
       (FailureStep(r) /\ req'[r].error.config \in {"nil", "empty"})
         => /\ req'[r].pc = "failed"
            /\ req'[r].error.id = req[r].dispatches
            /\ req'[r].result = Rejected(req'[r].error)
            /\ req'[r].config = req[r].config
            /\ req'[r].condCalls = req[r].condCalls
            /\ req'[r].delayArgs = req[r].delayArgs
            /\ req'[r].dispatches = req[r].dispatches]_vars

C5_Witness ==
  \E r \in DOMAIN req :
    /\ effective(r).retryCondition = "always"
    /\ retriesOf(effective(r)) >= 1
    /\ req[r].pc = "failed"
    /\ req[r].error.config = "empty"
    /\ req[r].result = Rejected(req[r].error)
    /\ req[r].dispatches = 1

\* C6: when a failure was retried and the re-dispatch succeeds, the caller's
\* promise resolves with the response of that re-dispatch (no earlier
\* failure reached the caller), and nothing is dispatched after the success
C6_ResolvesWithRedispatch ==
  /\ [](\A r \in DOMAIN req :
          (req[r].pc = "succeeded" /\ req[r].dispatches >= 2)
            => /\ req[r].result = Resolved(req[r].dispatches)
               /\ req[r].failures = req[r].dispatches - 1)
  /\ [][\A r \in DOMAIN req : req[r].pc = "succeeded" => req'[r] = req[r]]_vars

C6_Witness ==
  \E r \in DOMAIN req :
    /\ req[r].pc = "succeeded"
    /\ req[r].dispatches = 2
    /\ req[r].failures = 1
    /\ req[r].result = Resolved(2)

\* C7: with shouldResetTimeout = false, after a retry of a failed attempt
\* whose timeout was T > 0, that took d ms and got the delay `delay`, the
\* timeout of the re-dispatched config is max(T - d - delay, 1)
C7_RemainingTimeout ==
  \A r \in DOMAIN req :
    (/\ req[r].lastRetry.valid
     /\ ~shouldResetTimeoutOf(effective(r))
     /\ req[r].lastRetry.timeout.k = "number"
     /\ req[r].lastRetry.timeout.v > 0)
      => req[r].config.timeout =
           Num(Max(req[r].lastRetry.timeout.v - req[r].lastRetry.duration - req[r].lastRetry.delay, 1))

\* C8: with shouldResetTimeout = false, after a retry of a failed attempt
\* whose timeout was a defined non-zero number, the timeout of the
\* re-dispatched config is a number that is at least 1
C8_TimeoutAtLeastOne ==
  \A r \in DOMAIN req :
    (/\ req[r].lastRetry.valid
     /\ ~shouldResetTimeoutOf(effective(r))
     /\ req[r].lastRetry.timeout.k = "number"
     /\ req[r].lastRetry.timeout.v # 0)
      => /\ req[r].config.timeout.k = "number"
         /\ req[r].config.timeout.v >= 1

C8_Witness ==
  \E r \in DOMAIN req :
    /\ req[r].lastRetry.valid
    /\ ~shouldResetTimeoutOf(effective(r))
    /\ req[r].lastRetry.timeout = Num(-1)
    /\ req[r].lastRetry.duration > 0
    /\ req[r].lastRetry.delay > 0
    /\ req[r].dispatches = 2
    /\ req[r].config.timeout = Num(1)

\* C9: with shouldResetTimeout = false, the default retry condition and a
\* timeout T, once failed attempts have used up part of T and an attempt
\* needs longer than what remains of T, the chain ends with the caller
\* rejected by a timeout abort (ECONNABORTED); the caller never gets a
\* later response
C9_TimeoutHonoured ==
  \A r \in DOMAIN req :
    (/\ effective(r).retryCondition = "undefined"
     /\ ~shouldResetTimeoutOf(effective(r))
     /\ req[r].overran
     /\ req[r].pc \in {"succeeded", "failed"})
      => /\ req[r].result.kind = "rejected"
         /\ req[r].result.error.code = "ECONNABORTED"

\* C10: with shouldResetTimeout = true, the config of every dispatch carries
\* the timeout of the original request
C10_TimeoutReset ==
  \A r \in DOMAIN req :
    shouldResetTimeoutOf(effective(r)) => req[r].config.timeout = plan[r].timeout

C10_Witness ==
  \E r \in DOMAIN req :
    /\ shouldResetTimeoutOf(effective(r))
    /\ req[r].dispatches = 3
    /\ req[r].pc = "inflight"
    /\ req[r].lastRetry.duration > 0
    /\ req[r].lastRetry.delay > 0
    /\ plan[r].timeout = Num(MaxTimeout)
    /\ req[r].config.timeout = Num(MaxTimeout)

\* the calls made to the caller's counting delay function
countingCalls(q) == Cardinality({i \in 1..Len(q.delayFns) : q.delayFns[i] = "counting"})

\* C11: a delay function passed in the options under the key `delayFn` runs
\* once for each retry: with retries = 4, a retry condition that is always
\* true and three failing dispatches followed by a success, it has been
\* called exactly 3 times when the caller's promise resolves
C11_DelayFnPerRetry ==
  \A r \in DOMAIN req :
    (/\ effective(r).delayFn = "counting"
     /\ effective(r).retries = Num(4)
     /\ effective(r).retryCondition = "always"
     /\ req[r].pc = "succeeded"
     /\ req[r].result.kind = "resolved"
     /\ req[r].failures = 3)
      => countingCalls(req[r]) = 3

\* C12: the config of every re-dispatch (the first retry and every later
\* one) has the identity as its request transform, so the body serialized
\* by the first dispatch reaches the transport as it is and is never
\* serialized a second time
C12_TransformOnce ==
  \A r \in DOMAIN req :
    /\ req[r].config.data = 1
    /\ req[r].dispatches >= 2 => req[r].config.transformRequest = "identity"

C12_Witness ==
  \E r \in DOMAIN req :
    /\ req[r].dispatches = 3
    /\ req[r].pc = "inflight"
    /\ plan[r].transformRequest = "default"
    /\ req[r].config.transformRequest = "identity"
    /\ req[r].config.data = 1

\* C13: under the default retry condition a cancelled request (an error
\* without code) is never retried: whatever the method and whether or not
\* the error carries the config, the failure is terminal and nothing is
\* dispatched after it
C13_CancelledNeverRetried ==
  [][\A r \in DOMAIN plan :
       (/\ FailureStep(r)
        /\ effective(r).retryCondition = "undefined"
        /\ req'[r].error.code = "")
         => /\ req'[r].pc = "failed"
            /\ req'[r].result = Rejected(req'[r].error)
            /\ req'[r].delayArgs = req[r].delayArgs]_vars

\* C14: the default retry condition is true for an error exactly when
\* (no response, a code, the code is not ECONNABORTED, and isRetryAllowed) or
\* (a non-empty config, the code is not ECONNABORTED, no response or a status
\* in 500..599, and a method among get, head, options, put, delete)
C14_DefaultCondition ==
  probe.done =>
    (probe.verdict <=>
       \/ /\ ~probe.error.hasResponse
          /\ probe.error.code # ""
          /\ probe.error.code # "ECONNABORTED"
          /\ probe.error.allowed
       \/ /\ probe.error.config = "present"
          /\ probe.error.code # "ECONNABORTED"
          /\ (~probe.error.hasResponse \/ probe.error.status \in 500..599)
          /\ probe.method \in {"get", "head", "options", "put", "delete"})

C14_Witness ==
  /\ probe.done
  /\ probe.verdict
  /\ probe.error.hasResponse
  /\ probe.error.status = 599
  /\ probe.error.code = ""
  /\ probe.method = "delete"

\* C15: on every terminal path (retry condition false, retries exhausted)
\* the caller's promise is rejected with the very error the transport
\* reported for the most recent dispatch, not an earlier or a new one
C15_LastErrorUnchanged ==
  \A r \in DOMAIN req :
    req[r].pc = "failed"
      => /\ req[r].result.kind = "rejected"
         /\ req[r].result.error = req[r].error
         /\ req[r].result.error.id = req[r].dispatches
         /\ req[r].failures = req[r].dispatches

C15_Witness ==
  \E r \in DOMAIN req :
    /\ effective(r).retryCondition = "always"
    /\ req[r].pc = "failed"
    /\ req[r].dispatches = 3
    /\ retryCountOf(req[r]) = retriesOf(effective(r))
    /\ req[r].result.kind = "rejected"
    /\ req[r].result.error.code = "ECONNRESET"
    /\ req[r].result.error.id = 3

\* the retries of request r as the caller gave them: the request's own
\* 'axios-trials' retries, else the retries of the options, else the default
ownRetries(r) ==
  IF plan[r].ns.present /\ plan[r].ns.retries.k = "number" THEN plan[r].ns.retries.v
  ELSE IF opts.retries.k = "number" THEN opts.retries.v
  ELSE DefaultRetries

\* C16: two requests through the same instance have retry states of their
\* own, in any interleaving: a step of one request (dispatch, failure, retry)
\* leaves retryCount and lastRequestTime of the other as they were, and each
\* request is re-dispatched at most its own retries times
C16_IndependentRequests ==
  /\ [][\A r \in DOMAIN plan : \A s \in DOMAIN req :
          (/\ r # s
           /\ r \in DOMAIN req'
           /\ (r \notin DOMAIN req \/ req'[r] # req[r]))
            => /\ req'[s].config.ns.retryCount = req[s].config.ns.retryCount
               /\ req'[s].config.ns.lastRequestTime = req[s].config.ns.lastRequestTime
               /\ req'[s].dispatches = req[s].dispatches]_vars
  /\ [](\A r \in DOMAIN req :
          /\ req[r].dispatches <= ownRetries(r) + 1
          /\ retryCountOf(req[r]) <= ownRetries(r))

\* C17: the effective options of a failed request are the options of the
\* instance overridden key by key by the 'axios-trials' field of the request
\* config: a request that carries retries R, under options that carry G, is
\* re-dispatched at most R times (exactly R times when every dispatch fails
\* retryably), whatever G is
C17_PerRequestRetries ==
  \A r \in DOMAIN req :
    (plan[r].ns.present /\ plan[r].ns.retries.k = "number")
      => /\ effective(r).retries = plan[r].ns.retries
         /\ effective(r).retryCondition = opts.retryCondition
         /\ effective(r).retryDelay = opts.retryDelay
         /\ req[r].dispatches <= plan[r].ns.retries.v + 1
         /\ (/\ opts.retryCondition = "always"
             /\ req[r].pc = "failed"
             /\ req[r].error.config = "present")
              => req[r].dispatches = plan[r].ns.retries.v + 1

C17_Witness ==
  \E r \in DOMAIN req :
    /\ plan[r].ns.present
    /\ plan[r].ns.retries = Num(2)
    /\ opts.retries = Num(1)
    /\ req[r].pc = "failed"
    /\ req[r].dispatches = 3

\* the agents set in the defaults of the axios instance
defaultAgents == {AxiosDefaults[name] : name \in {"agent", "httpAgent", "httpsAgent"}} \ {"undefined"}

\* C18: when a retry is issued for a request whose config agent is one of
\* the default agents of the instance, the re-dispatched config has no agent
\* field; an agent that differs from all the defaults is kept
C18_DefaultAgentOmitted ==
  \A r \in DOMAIN req :
    req[r].dispatches >= 2
      => /\ plan[r].agent \in defaultAgents => req[r].config.agent = "absent"
         /\ plan[r].agent \notin defaultAgents => req[r].config.agent = plan[r].agent

\* request r has reached its outcome: the caller's promise is settled and
\* nothing is in flight or scheduled
Terminal(r) ==
  /\ r \in DOMAIN req
  /\ req[r].pc \in {"succeeded", "failed"}
  /\ req[r].result.kind \in {"resolved", "rejected"}

\* C19: when every dispatch is answered and every delay timer fires, every
\* request that was issued reaches a terminal outcome (resolved with a
\* response or rejected with an error), for any retry condition and any
\* retries, after at most retries + 1 dispatches
C19_Terminates ==
  /\ \A r \in {1} : (r \in DOMAIN req) ~> Terminal(r)
  /\ [](\A r \in DOMAIN req : req[r].dispatches <= retriesOf(effective(r)) + 1)

C19_Witness ==
  /\ Terminal(1)
  /\ effective(1).retryCondition = "undefined"
  /\ retriesOf(effective(1)) = 2
  /\ req[1].dispatches = 3
  /\ req[1].result.kind = "resolved"

\* C20: the delay function is called with the retry number after the
\* increment and with the error of the attempt that just failed: the k-th
\* retry of a request calls it with k and the error of dispatch k, so the
\* arguments over a retry chain are 1, 2, ..., k and never 0
C20_DelayArguments ==
  \A r \in DOMAIN req :
    /\ Len(req[r].delayArgs) = retryCountOf(req[r])
    /\ Len(req[r].delayErrors) = retryCountOf(req[r])
    /\ \A k \in 1..Len(req[r].delayArgs) :
         /\ req[r].delayArgs[k] = k
         /\ req[r].delayErrors[k] = k

C20_Witness ==
  \E r \in DOMAIN req :
    /\ effective(r).retryDelay = "linear"
    /\ req[r].delayArgs = <<1, 2, 3>>
    /\ req[r].delayErrors = <<1, 2, 3>>
    /\ req[r].lastRetry.delay = 3


\* the timeouts that set no timeout: undefined, null, NaN and 0
UnsetTimeouts == {Undef, Null, NaNv, Num(0)}

\* C21: when the timeout of the request is undefined, null, NaN or 0, the
\* config of every dispatch, the re-dispatches included, carries that same
\* timeout, whatever shouldResetTimeout is; and a failed attempt with such a
\* timeout hands its timeout unchanged to the re-dispatched config
C21_NoTimeoutIntroduced ==
  \A r \in DOMAIN req :
    /\ plan[r].timeout \in UnsetTimeouts => req[r].config.timeout = plan[r].timeout
    /\ (req[r].lastRetry.valid /\ req[r].lastRetry.timeout \in UnsetTimeouts)
         => req[r].config.timeout = req[r].lastRetry.timeout

C21_Witness ==
  \E r \in DOMAIN req :
    /\ ~shouldResetTimeoutOf(effective(r))
    /\ plan[r].timeout = Num(0)
    /\ req[r].dispatches = 3
    /\ req[r].pc = "inflight"
    /\ req[r].lastRetry.valid
    /\ req[r].lastRetry.timeout = Num(0)
    /\ req[r].lastRetry.duration > 0
    /\ req[r].lastRetry.delay > 0
    /\ req[r].config.timeout = Num(0)

====
